---- MODULE Spec2Model ----
(***************************************************************************)
(* Model of the traffic-density pipeline of src/app.py (generate_frames,   *)
(* index, video_feed) and of the persistence store of src/database.py      *)
(* (TrafficDatabase).                                                      *)
(*                                                                         *)
(* Units.  A confidence is an integer number of 1/100000 (0.3 = 30000).    *)
(* A density score is an integer number of halves (12.0 = 24), which is    *)
(* exact because every weight is a multiple of 0.5.  Time is an integer    *)
(* number of hours: the clock moves only by whole hours (Tick), and two    *)
(* store calls with no Tick between them fall in the same second, so they  *)
(* get the same CURRENT_TIMESTAMP.                                         *)
(***************************************************************************)
EXTENDS Integers, Sequences, FiniteSets, TLC

VARIABLES
    \* ---- one processing cycle of generate_frames (src/app.py:41-130)
    cpc,            \* position of the generator inside the while loop
    box,            \* the detection being looked at: [cls, conf] as the detector gave it
    currentClass,   \* classNames[cls]
    conf,           \* round(float(box.conf[0]), 2)
    counts,         \* car_count, bus_count, truck_count, bike_count
    density_score,  \* in halves
    text,           \* "GREEN LIGHT" / "YELLOW LIGHT" / "RED LIGHT"
    frameKept,      \* per class, the boxes of the current frame that passed line 58
    \* ---- the video session shared by index and generate_frames (src/app.py)
    current_video_path,  \* the global: "None" or the upload path
    file,           \* static/uploads/input_video.mp4: [exists, data]
    upc,            \* position of each POST / request
    wpos,           \* write offset of each upload inside file.save
    spc,            \* position of each GET /video_feed request and its generator
    cap,            \* each generator's cv2.VideoCapture: [open, pos]
    obs,            \* what each generator met at its last open or read
    \* ---- TrafficDatabase (src/database.py)
    clock,          \* the store's 'now', in hours
    ticks,          \* clock advances so far
    traffic_records,
    decision_log,
    ret             \* what the last store call returned

cycleVars == <<cpc, box, currentClass, conf, counts, density_score, text, frameKept>>
streamVars == <<current_video_path, file, upc, wpos, spc, cap, obs>>
dbVars == <<clock, ticks, traffic_records, decision_log, ret>>

vars == <<cycleVars, streamVars, dbVars>>

(***************************************************************************)
(* Bounds                                                                  *)
(***************************************************************************)
MaxBoxes == 9       \* counted detections per frame
MaxUploads == 2     \* POST / requests
MaxStreamers == 2   \* GET /video_feed requests
NChunks == 2        \* chunks file.save copies, and frames of an uploaded video
MaxRows == 2        \* rows the store holds, both tables together
MaxTicks == 2       \* clock advances

(***************************************************************************)
(* src/app.py: detection aggregation, scoring, decision                    *)
(***************************************************************************)
\* The first eight entries of classNames (0-based index cls).
classNames == <<"person", "bicycle", "car", "motorbike", "aeroplane", "bus", "train", "truck">>

ClassOf(cls) == classNames[cls + 1]

\* Class indices the detector is made to return here.
DetectedCls == {0, 2, 3, 5, 7}

\* Confidences the detector is made to return here, in 1/100000.
DetectedConf == {30000, 30001, 90000}

\* round(x, 2): to the nearest multiple of 1000/100000, ties to even.
Round2(c) ==
    LET q == c \div 1000
        r == c % 1000
    IN  IF r < 500 THEN q * 1000
        ELSE IF r > 500 THEN (q + 1) * 1000
        ELSE IF q % 2 = 0 THEN q * 1000 ELSE (q + 1) * 1000

Whitelist == {"car", "bus", "truck", "motorbike"}

ConfThreshold == 30000

\* line 58: currentClass in [...] and conf > 0.3, conf being the rounded value
Keep(cc, cf) == cc \in Whitelist /\ cf > ConfThreshold

ZeroCounts == [c \in Whitelist |-> 0]

\* Mutant of ResetCounts: the counters are not zeroed at the top of the cycle.
ResetCountsCarryOver(old) == old

\* line 49
ResetCounts(old) == ZeroCounts

\* lines 79-86
Increment(cnt, cc) == [cnt EXCEPT ![cc] = @ + 1]

\* lines 89-94, in halves
DensityScore(cnt) ==
    cnt["car"] * 2 + cnt["bus"] * 5 + cnt["truck"] * 4 + cnt["motorbike"] * 1

GreenAbove == 40    \* density_score > 20
YellowAbove == 20   \* density_score > 10

\* Mutant of SignalText: the band limits taken as inclusive from above.
SignalTextInclusive(score) ==
    IF score >= GreenAbove THEN "GREEN LIGHT"
    ELSE IF score >= YellowAbove THEN "YELLOW LIGHT"
    ELSE "RED LIGHT"

\* lines 96-101
SignalText(score) ==
    IF score > GreenAbove THEN "GREEN LIGHT"
    ELSE IF score > YellowAbove THEN "YELLOW LIGHT"
    ELSE "RED LIGHT"

Total(cnt) == cnt["car"] + cnt["bus"] + cnt["truck"] + cnt["motorbike"]

CycleInit ==
    /\ cpc = "read"
    /\ box = [cls |-> 0, conf |-> 0]
    /\ currentClass = "none"
    /\ conf = 0
    /\ counts = ZeroCounts
    /\ density_score = 0
    /\ text = "none"
    /\ frameKept = ZeroCounts

\* lines 42-49: a frame is read, the detector is started, the counters are zeroed
ReadFrame ==
    /\ cpc \in {"read", "yielded"}
    /\ counts' = ResetCounts(counts)
    /\ frameKept' = ZeroCounts
    /\ cpc' = "boxes"
    /\ UNCHANGED <<box, currentClass, conf, density_score, text>>
    /\ UNCHANGED <<streamVars, dbVars>>

\* lines 52-86: one box of the detector's result
DetectBox ==
    /\ cpc = "boxes"
    /\ Total(counts) < MaxBoxes
    /\ \E cls \in DetectedCls, c \in DetectedConf :
        /\ box' = [cls |-> cls, conf |-> c]
        /\ currentClass' = ClassOf(cls)
        /\ conf' = Round2(c)
        /\ counts' = IF Keep(ClassOf(cls), Round2(c))
                     THEN Increment(counts, ClassOf(cls))
                     ELSE counts
        /\ frameKept' = IF Keep(ClassOf(cls), Round2(c))
                        THEN [frameKept EXCEPT ![ClassOf(cls)] = @ + 1]
                        ELSE frameKept
    /\ UNCHANGED <<cpc, density_score, text>>
    /\ UNCHANGED <<streamVars, dbVars>>

\* lines 89-101: the detector's result is exhausted
ScoreAndDecide ==
    /\ cpc = "boxes"
    /\ density_score' = DensityScore(counts)
    /\ text' = SignalText(DensityScore(counts))
    /\ cpc' = "decided"
    /\ UNCHANGED <<box, currentClass, conf, counts, frameKept>>
    /\ UNCHANGED <<streamVars, dbVars>>

\* lines 104-130: overlay, encode, yield
YieldFrame ==
    /\ cpc = "decided"
    /\ cpc' = "yielded"
    /\ UNCHANGED <<box, currentClass, conf, counts, density_score, text, frameKept>>
    /\ UNCHANGED <<streamVars, dbVars>>

CycleNext == ReadFrame \/ DetectBox \/ ScoreAndDecide \/ YieldFrame

(***************************************************************************)
(* src/app.py: the video session (index, video_feed, generate_frames)      *)
(***************************************************************************)
Uploads == 1..MaxUploads
Streamers == 1..MaxStreamers

\* os.path.join(UPLOAD_FOLDER, "input_video.mp4"): every upload uses this one path
filepath == "input_video.mp4"

\* uploads inside file.save: the file is open for writing and not yet whole
Writers == {u \in Uploads : upc[u] = "saving"}

StreamInit ==
    /\ current_video_path = "None"
    /\ file = [exists |-> FALSE, data |-> <<>>]
    /\ upc = [u \in Uploads |-> "idle"]
    /\ wpos = [u \in Uploads |-> 0]
    /\ spc = [s \in Streamers |-> "idle"]
    /\ cap = [s \in Streamers |-> [open |-> FALSE, pos |-> 0]]
    /\ obs = [s \in Streamers |-> "none"]

\* lines 141-146: no file part, or an empty file name
UploadRejected(u) ==
    /\ upc[u] = "idle"
    /\ upc' = [upc EXCEPT ![u] = "done"]
    /\ UNCHANGED <<current_video_path, file, wpos, spc, cap, obs>>
    /\ UNCHANGED <<cycleVars, dbVars>>

\* lines 148-149: file.save opens the destination for writing, which truncates it
UploadOpen(u) ==
    /\ upc[u] = "idle"
    /\ upc' = [upc EXCEPT ![u] = "saving"]
    /\ wpos' = [wpos EXCEPT ![u] = 0]
    /\ file' = [exists |-> TRUE, data |-> <<>>]
    /\ UNCHANGED <<current_video_path, spc, cap, obs>>
    /\ UNCHANGED <<cycleVars, dbVars>>

\* line 149: file.save copies one chunk at its own offset
UploadWrite(u) ==
    /\ upc[u] = "saving"
    /\ wpos[u] < NChunks
    /\ file' = [file EXCEPT !.data =
                   IF wpos[u] < Len(@)
                   THEN [@ EXCEPT ![wpos[u] + 1] = u]
                   ELSE Append(@, u)]
    /\ wpos' = [wpos EXCEPT ![u] = @ + 1]
    /\ UNCHANGED <<current_video_path, upc, spc, cap, obs>>
    /\ UNCHANGED <<cycleVars, dbVars>>

\* lines 149-152: file.save returns, the global is assigned
UploadFinish(u) ==
    /\ upc[u] = "saving"
    /\ wpos[u] = NChunks
    /\ current_video_path' = filepath
    /\ upc' = [upc EXCEPT ![u] = "done"]
    /\ UNCHANGED <<file, wpos, spc, cap, obs>>
    /\ UNCHANGED <<cycleVars, dbVars>>

\* lines 157-164: video_feed
VideoFeed(s) ==
    /\ spc[s] = "idle"
    /\ spc' = [spc EXCEPT ![s] =
                  IF current_video_path = "None" THEN "refused" ELSE "created"]
    /\ UNCHANGED <<current_video_path, file, upc, wpos, cap, obs>>
    /\ UNCHANGED <<cycleVars, dbVars>>

\* What an open or a read meets: a file some upload is still writing, or a whole one.
Met == IF Writers # {} THEN "writing" ELSE "whole"

\* lines 36-41 and 132: the generator starts; cv2.VideoCapture may fail to open a
\* file that is not a whole video, and then the loop is skipped and cap released
StartGenerator(s) ==
    /\ spc[s] = "created"
    /\ IF current_video_path = "None" \/ ~file.exists
       THEN /\ spc' = [spc EXCEPT ![s] = "returned"]
            /\ UNCHANGED <<cap, obs>>
       ELSE /\ obs' = [obs EXCEPT ![s] = Met]
            /\ \E opened \in (IF Writers # {} THEN BOOLEAN ELSE {TRUE}) :
                  IF opened
                  THEN /\ cap' = [cap EXCEPT ![s] = [open |-> TRUE, pos |-> 0]]
                       /\ spc' = [spc EXCEPT ![s] = "loop"]
                  ELSE /\ cap' = [cap EXCEPT ![s] = [open |-> FALSE, pos |-> 0]]
                       /\ spc' = [spc EXCEPT ![s] = "returned"]
    /\ UNCHANGED <<current_video_path, file, upc, wpos>>
    /\ UNCHANGED <<cycleVars, dbVars>>

\* lines 42-45: cap.read() finds no frame, the position is set back to 0
ReadRewind(s) ==
    /\ spc[s] = "loop"
    /\ cap[s].pos >= Len(file.data)
    /\ cap' = [cap EXCEPT ![s].pos = 0]
    /\ obs' = [obs EXCEPT ![s] = Met]
    /\ UNCHANGED <<current_video_path, file, upc, wpos, spc>>
    /\ UNCHANGED <<cycleVars, dbVars>>

\* lines 42-130: cap.read() gives a frame, which is processed and yielded
ReadAndYield(s) ==
    /\ spc[s] = "loop"
    /\ cap[s].pos < Len(file.data)
    /\ cap' = [cap EXCEPT ![s].pos = @ + 1]
    /\ obs' = [obs EXCEPT ![s] = Met]
    /\ spc' = [spc EXCEPT ![s] = "yielded"]
    /\ UNCHANGED <<current_video_path, file, upc, wpos>>
    /\ UNCHANGED <<cycleVars, dbVars>>

\* the consumer asks for the next part
Resume(s) ==
    /\ spc[s] = "yielded"
    /\ spc' = [spc EXCEPT ![s] = "loop"]
    /\ UNCHANGED <<current_video_path, file, upc, wpos, cap, obs>>
    /\ UNCHANGED <<cycleVars, dbVars>>

\* The consumer disconnects: the generator is closed at its yield, line 132 is
\* not reached; the capture is released only when the object is collected,
\* at once or later depending on the interpreter.
Disconnect(s) ==
    /\ spc[s] = "yielded"
    /\ spc' = [spc EXCEPT ![s] = "closed"]
    /\ \E stillOpen \in BOOLEAN : cap' = [cap EXCEPT ![s].open = stillOpen]
    /\ UNCHANGED <<current_video_path, file, upc, wpos, obs>>
    /\ UNCHANGED <<cycleVars, dbVars>>

\* a closed generator's capture object is collected
Collect(s) ==
    /\ spc[s] = "closed"
    /\ cap[s].open
    /\ cap' = [cap EXCEPT ![s].open = FALSE]
    /\ UNCHANGED <<current_video_path, file, upc, wpos, spc, obs>>
    /\ UNCHANGED <<cycleVars, dbVars>>

StreamNext ==
    \/ \E u \in Uploads :
          UploadRejected(u) \/ UploadOpen(u) \/ UploadWrite(u) \/ UploadFinish(u)
    \/ \E s \in Streamers :
          \/ VideoFeed(s) \/ StartGenerator(s) \/ ReadRewind(s) \/ ReadAndYield(s)
          \/ Resume(s) \/ Disconnect(s) \/ Collect(s)

(***************************************************************************)
(* src/database.py: TrafficDatabase                                        *)
(***************************************************************************)
NULL == "NULL"

HourSpan == 1       \* datetime('now', '-1 hour')
DaySpan == 24       \* DATE(timestamp): hours in a calendar day
WeekSpan == 168     \* datetime('now', '-7 days')

\* How far the clock moves between two store calls.
Jumps == {HourSpan, DaySpan - HourSpan, WeekSpan}

\* Arguments the callers are made to pass here.
LaneIds == {1, 2, 3}
VehicleCounts == {4}
Lane1Vehicles == {3}
Lane2Vehicles == {2}
Durations == {10}
Levels == {"RED", "YELLOW"}
ActiveLanes == {1}
Periods == {"all", "today", "week", "hour"}

DBInit ==
    /\ clock = 0
    /\ ticks = 0
    /\ traffic_records = <<>>
    /\ decision_log = <<>>
    /\ ret = [op |-> "none"]

\* time passes between calls
Tick(d) ==
    /\ ticks < MaxTicks
    /\ ticks' = ticks + 1
    /\ clock' = clock + d
    /\ UNCHANGED <<traffic_records, decision_log, ret>>
    /\ UNCHANGED <<cycleVars, streamVars>>

\* rows held by the two tables
Rows == Len(traffic_records) + Len(decision_log)

\* Mutant of valid_lane: the CHECK constraint admits a third lane.
valid_lane_three(lane_id) == lane_id \in {1, 2, 3}

\* line 41: CONSTRAINT valid_lane CHECK (lane_id IN (1, 2))
valid_lane(lane_id) == lane_id \in {1, 2}

\* lines 77-91
add_traffic_record(lane_id, vehicle_count, congestion_level, green_duration) ==
    /\ IF valid_lane(lane_id)
       THEN /\ Rows < MaxRows
            /\ traffic_records' = Append(traffic_records,
                   [id |-> Len(traffic_records) + 1,
                    timestamp |-> clock,
                    lane_id |-> lane_id,
                    vehicle_count |-> vehicle_count,
                    congestion_level |-> congestion_level,
                    green_duration |-> green_duration])
            /\ ret' = [op |-> "add_traffic_record", lane_id |-> lane_id, value |-> TRUE]
       ELSE /\ traffic_records' = traffic_records
            /\ ret' = [op |-> "add_traffic_record", lane_id |-> lane_id, value |-> FALSE]
    /\ UNCHANGED <<clock, ticks, decision_log>>
    /\ UNCHANGED <<cycleVars, streamVars>>

\* Mutant of TotalVehicles: the second lane is left out of the total.
TotalVehiclesLane1(lane1_vehicles, lane2_vehicles) == lane1_vehicles

\* line 99
TotalVehicles(lane1_vehicles, lane2_vehicles) == lane1_vehicles + lane2_vehicles

\* lines 93-111
add_decision(lane1_vehicles, lane2_vehicles, lane1_duration, lane2_duration, congestion_level, active_lane) ==
    /\ Rows < MaxRows
    /\ decision_log' = Append(decision_log,
           [id |-> Len(decision_log) + 1,
            timestamp |-> clock,
            lane1_vehicles |-> lane1_vehicles,
            lane2_vehicles |-> lane2_vehicles,
            lane1_duration |-> lane1_duration,
            lane2_duration |-> lane2_duration,
            total_vehicles |-> TotalVehicles(lane1_vehicles, lane2_vehicles),
            congestion_level |-> congestion_level,
            active_lane |-> active_lane])
    /\ ret' = [op |-> "add_decision", value |-> TRUE]
    /\ UNCHANGED <<clock, ticks, traffic_records>>
    /\ UNCHANGED <<cycleVars, streamVars>>

\* ORDER BY timestamp DESC: the orders of the rows of a table the engine may
\* produce.  Rows of equal timestamp come in an order SQL leaves open.
OrderedByTimestampDesc(table) ==
    {p \in [DOMAIN table -> DOMAIN table] :
        /\ \A i, j \in DOMAIN table : i # j => p[i] # p[j]
        /\ \A i, j \in DOMAIN table :
              i < j => table[p[i]].timestamp >= table[p[j]].timestamp}

Min(a, b) == IF a < b THEN a ELSE b

\* ORDER BY timestamp DESC LIMIT ?
RecentRows(table, limit) ==
    {[i \in 1..Min(limit, Len(table)) |-> table[p[i]]] : p \in OrderedByTimestampDesc(table)}

\* lines 113-123
get_recent_records(limit) ==
    /\ \E rows \in RecentRows(traffic_records, limit) :
          ret' = [op |-> "get_recent_records", limit |-> limit, rows |-> rows]
    /\ UNCHANGED <<clock, ticks, traffic_records, decision_log>>
    /\ UNCHANGED <<cycleVars, streamVars>>

\* lines 125-135
get_recent_decisions(limit) ==
    /\ \E rows \in RecentRows(decision_log, limit) :
          ret' = [op |-> "get_recent_decisions", limit |-> limit, rows |-> rows]
    /\ UNCHANGED <<clock, ticks, traffic_records, decision_log>>
    /\ UNCHANGED <<cycleVars, streamVars>>

Date(t) == t \div DaySpan

\* Mutant of time_filter: the week window written as '-7 hours'.
time_filter_short_week(time_period, timestamp, now) ==
    CASE time_period = "today" -> Date(timestamp) = Date(now)
      [] time_period = "week" -> timestamp >= now - 7
      [] time_period = "hour" -> timestamp >= now - HourSpan
      [] OTHER -> TRUE

\* lines 142-148: the WHERE clause of a period, applied to one timestamp
time_filter(time_period, timestamp, now) ==
    CASE time_period = "today" -> Date(timestamp) = Date(now)
      [] time_period = "week" -> timestamp >= now - WeekSpan
      [] time_period = "hour" -> timestamp >= now - HourSpan
      [] OTHER -> TRUE

Selected(table, time_period) ==
    {i \in DOMAIN table : time_filter(time_period, table[i].timestamp, clock)}

MaxOf(S) == CHOOSE m \in S : \A x \in S : x <= m

RECURSIVE SumOf(_, _)
SumOf(table, S) ==
    IF S = {} THEN 0
    ELSE LET i == CHOOSE x \in S : TRUE
         IN  table[i].vehicle_count + SumOf(table, S \ {i})

\* lines 150-180; AVG is given as the pair (sum, n)
Statistics(time_period) ==
    LET recs == Selected(traffic_records, time_period)
        decs == Selected(decision_log, time_period)
        lanes == {traffic_records[i].lane_id : i \in recs}
        ofLane(l) == {i \in recs : traffic_records[i].lane_id = l}
        levels == {decision_log[i].congestion_level : i \in decs}
    IN  [total_records |-> Cardinality(recs),
         lane_stats |-> [l \in lanes |->
             [avg |-> <<SumOf(traffic_records, ofLane(l)), Cardinality(ofLane(l))>>,
              max |-> MaxOf({traffic_records[i].vehicle_count : i \in ofLane(l)})]],
         congestion_distribution |-> [c \in levels |->
             Cardinality({i \in decs : decision_log[i].congestion_level = c})],
         total_decisions |-> Cardinality(decs)]

\* lines 137-180
get_statistics(time_period) ==
    /\ ret' = [op |-> "get_statistics", time_period |-> time_period,
               stats |-> Statistics(time_period)]
    /\ UNCHANGED <<clock, ticks, traffic_records, decision_log>>
    /\ UNCHANGED <<cycleVars, streamVars>>

DBNext ==
    \/ \E d \in Jumps : Tick(d)
    \/ \E l \in LaneIds, v \in VehicleCounts : add_traffic_record(l, v, NULL, NULL)
    \/ \E l1 \in Lane1Vehicles, l2 \in Lane2Vehicles, d1 \in Durations, d2 \in Durations,
          c \in Levels, a \in ActiveLanes : add_decision(l1, l2, d1, d2, c, a)
    \/ \E limit \in 1..MaxRows : get_recent_records(limit)
    \/ \E limit \in 1..MaxRows : get_recent_decisions(limit)
    \/ \E p \in Periods : get_statistics(p)

(***************************************************************************)
(* Specifications                                                          *)
(***************************************************************************)
Init == CycleInit /\ StreamInit /\ DBInit

SpecCycle == Init /\ [][CycleNext]_vars

SpecStream == Init /\ [][StreamNext]_vars

SpecDB == Init /\ [][DBNext]_vars

(***************************************************************************)
(* Claims                                                                  *)
(***************************************************************************)
Open == {s \in Streamers : cap[s].open}

\* C1: while an upload replaces the session, no generator opens or reads a
\* video file that an upload is still writing.  (Stated as claimed; the code
\* has no lock and every upload writes the one path, so this fails.)
C1_AtomicReplacement == \A s \in Streamers : obs[s] # "writing"

\* C2: a detection is counted iff its class is car, bus, truck or motorbike
\* and its confidence, as the detector gave it, is strictly above 0.3; a
\* counted detection adds one to the counter of its own class.  (Stated as
\* claimed; the code compares the confidence rounded to two decimals.)
C2_KeepRule ==
    [][(cpc = "boxes" /\ cpc' = "boxes") =>
          counts' = IF /\ ClassOf(box'.cls) \in {"car", "bus", "truck", "motorbike"}
                       /\ box'.conf > 30000
                    THEN [counts EXCEPT ![ClassOf(box'.cls)] = @ + 1]
                    ELSE counts]_vars

LevelOf(t) ==
    CASE t = "GREEN LIGHT" -> "GREEN"
      [] t = "YELLOW LIGHT" -> "YELLOW"
      [] t = "RED LIGHT" -> "RED"
      [] OTHER -> "none"

\* C3: a cycle that has yielded a frame has persisted a decision whose
\* congestion_level is the level decided for that frame.  (Stated as claimed;
\* generate_frames never calls the store.)
C3_DecisionPersisted ==
    cpc = "yielded" =>
        \E i \in DOMAIN decision_log : decision_log[i].congestion_level = LevelOf(text)

NestedIn(field, narrow, wide) == Statistics(narrow)[field] <= Statistics(wide)[field]

\* C4 as claimed: the counts of statistics are nested hour <= today <= week
\* <= all, for total_records and for total_decisions.
C4_Nested ==
    \A f \in {"total_records", "total_decisions"} :
        NestedIn(f, "hour", "today") /\ NestedIn(f, "today", "week") /\ NestedIn(f, "week", "all")

\* C4 as amended: hour <= week <= all and today <= week <= all, for
\* total_records and for total_decisions; hour and today are not ordered.
C4_NestedAmended ==
    \A f \in {"total_records", "total_decisions"} :
        /\ NestedIn(f, "hour", "week")
        /\ NestedIn(f, "today", "week")
        /\ NestedIn(f, "week", "all")
        /\ (ret.op = "get_statistics" => ret.stats[f] <= Statistics("all")[f])

\* C4 witness: statistics('week') has returned one record while two are stored,
\* none of them of today.
C4_Witness ==
    /\ ret.op = "get_statistics"
    /\ ret.time_period = "week"
    /\ ret.stats.total_records = 1
    /\ Statistics("today").total_records = 0
    /\ Statistics("all").total_records = 2

\* C5: once a frame is decided, the signal text is GREEN for a score above 20,
\* YELLOW for a score above 10 and at most 20, RED for a score of at most 10
\* (scores in halves: 40 and 20), whatever the earlier cycles decided.
C5_SignalBands ==
    cpc \in {"decided", "yielded"} =>
        /\ (density_score > 40 => text = "GREEN LIGHT")
        /\ (density_score > 20 /\ density_score <= 40 => text = "YELLOW LIGHT")
        /\ (density_score <= 20 => text = "RED LIGHT")

\* C5 witness: a frame of score exactly 20 was yielded as YELLOW.
C5_Witness == cpc = "yielded" /\ density_score = 40 /\ text = "YELLOW LIGHT"

\* C6: once a frame is decided, the density score is car*1.0 + bus*2.5 +
\* truck*2.0 + motorbike*0.5 (in halves: 2, 5, 4, 1) over the detections kept
\* in that frame alone.
C6_ScoreOfFrame ==
    cpc \in {"decided", "yielded"} =>
        density_score = 2 * frameKept["car"] + 5 * frameKept["bus"]
                        + 4 * frameKept["truck"] + frameKept["motorbike"]

\* C6 witness: a frame with 5 cars, 2 buses and 1 truck was yielded with score 12.0.
C6_Witness ==
    /\ cpc = "yielded"
    /\ frameKept = [c \in Whitelist |->
                       CASE c = "car" -> 5 [] c = "bus" -> 2 [] c = "truck" -> 1 [] OTHER -> 0]
    /\ density_score = 24

\* C7: add_traffic_record with a lane_id outside {1, 2} returns failure and
\* leaves traffic_records as it was, and a valid write made right after a
\* failed one succeeds and adds one row.
C7_InvalidLaneRejected ==
    [][/\ (ret'.op = "add_traffic_record" /\ ret'.lane_id \notin {1, 2}) =>
             (ret'.value = FALSE /\ traffic_records' = traffic_records)
       /\ (/\ ret.op = "add_traffic_record" /\ ret.value = FALSE
           /\ ret'.op = "add_traffic_record" /\ ret'.lane_id \in {1, 2}) =>
             (ret'.value = TRUE /\ Len(traffic_records') = Len(traffic_records) + 1)]_vars

\* C7 witness: a call with lane_id 3 has returned failure with one row stored.
C7_Witness ==
    /\ ret.op = "add_traffic_record"
    /\ ret.lane_id = 3
    /\ ret.value = FALSE
    /\ Len(traffic_records) = 1

TotalsOk(rows) ==
    \A i \in DOMAIN rows :
        rows[i].total_vehicles = rows[i].lane1_vehicles + rows[i].lane2_vehicles

\* C8: every step leaves the entries already in decision_log as they were (it
\* only appends), and every entry stored, and every entry read back by
\* get_recent_decisions, has total_vehicles = lane1_vehicles + lane2_vehicles.
C8_TotalIsSum ==
    [][/\ Len(decision_log') >= Len(decision_log)
       /\ SubSeq(decision_log', 1, Len(decision_log)) = decision_log
       /\ TotalsOk(decision_log')
       /\ (ret'.op = "get_recent_decisions" => TotalsOk(ret'.rows))]_vars

\* C8 witness: two decisions were read back, the first with total 5 = 3 + 2.
C8_Witness ==
    /\ ret.op = "get_recent_decisions"
    /\ Len(ret.rows) = 2
    /\ ret.rows[1].lane2_vehicles = 2
    /\ ret.rows[1].total_vehicles = 5

NewestFirst(table, limit) ==
    [i \in 1..Min(limit, Len(table)) |-> table[Len(table) - i + 1]]

\* C9: get_recent_records and get_recent_decisions return the min(limit, n)
\* entries written last, a later-written entry before an earlier-written one,
\* entries of equal timestamp included.  (Stated as claimed; the queries order
\* by timestamp alone.)
C9_NewestFirst ==
    /\ ret.op = "get_recent_records" => ret.rows = NewestFirst(traffic_records, ret.limit)
    /\ ret.op = "get_recent_decisions" => ret.rows = NewestFirst(decision_log, ret.limit)

\* C10: at most one video handle is open at any time.  (Stated as claimed;
\* every generator opens a capture of its own.)
C10_OneHandle == Cardinality(Open) <= 1

====
